---- MODULE Spec2Model ----
(***************************************************************************)
(* Model of scripts/generate_ai_videos.py: the batch pipeline that, for    *)
(* every planet of a catalog, samples frames from a text-to-image pipeline *)
(* into a per-planet frame directory and has ffmpeg assemble them.         *)
(*                                                                         *)
(* Strings the script inspects character by character (planet names) are   *)
(* sequences of one-character strings; file names are TLA+ strings.        *)
(***************************************************************************)
EXTENDS Integers, Sequences, FiniteSets, TLC

VARIABLES
    pc,         \* position in generate_videos
    err,        \* the exception that left generate_videos, "" if none
    planets,    \* the catalog returned by load_planets (args.data)
    frames,     \* args.frames
    limit,      \* args.limit
    modelLoads, \* number of StableDiffusionPipeline.from_pretrained calls
    root,       \* files directly inside .cache_video_frames
    dirs,       \* sub-directories of .cache_video_frames: name -> files
    idx,        \* 1-based position of the loop "for planet in planets"
    seeds,      \* the seeds list of the running make_frames_for_prompt
    f,          \* 0-based position of the loop "for i, s in enumerate(seeds)"
    calls,      \* generator/pipeline invocations made so far
    attempted,  \* catalog positions handed to make_frames_for_prompt, in order
    genFailed,  \* catalog positions whose make_frames_for_prompt raised
    encInvoked, \* catalog positions handed to assemble_video
    encFailed,  \* catalog positions whose assemble_video raised
    saved,      \* "Saved video" reports: [rec, file]
    san         \* state of the stand-alone sanitization run

vars == <<pc, err, planets, frames, limit, modelLoads, root, dirs, idx, seeds,
          f, calls, attempted, genFailed, encInvoked, encFailed, saved, san>>

-----------------------------------------------------------------------------
(* Bounds *)

MaxCatalog == 2
MaxFrames == 2
MaxLimit == 1
StaleFrames == 3
MaxLen == 4

(* Program constants *)

Width == 1024
Height == 576
SeedBase == 1000
SeedStep == 7

-----------------------------------------------------------------------------
(* Characters and strings *)

Letters == {"K", "e", "p", "l", "r", "b", "a", "d", "n", "m", "t", "z"}
Digits == {"0", "1"}

\* str.isalnum() on one character
isalnum(c) == c \in Letters \cup Digits

\* characters str.strip() removes
Whitespace == {" ", "\t"}

RECURSIVE Str(_)
\* ''.join(chars)
Str(s) == IF s = <<>> THEN "" ELSE Head(s) \o Str(Tail(s))

\* the generator expression of line 112
KeepChar(c) == isalnum(c) \/ c \in {" ", "-", "_"}

RECURSIVE lstrip(_)
lstrip(s) == IF s # <<>> /\ Head(s) \in Whitespace THEN lstrip(Tail(s)) ELSE s

RECURSIVE rstrip(_)
rstrip(s) ==
    IF s # <<>> /\ s[Len(s)] \in Whitespace
    THEN rstrip(SubSeq(s, 1, Len(s) - 1))
    ELSE s

\* str.strip()
strip(s) == rstrip(lstrip(s))

replaceSwapped(s, old, new) == [k \in 1..Len(s) |-> IF s[k] = new THEN old ELSE s[k]]

\* str.replace(old, new) for one-character old and new
replace(s, old, new) == [k \in 1..Len(s) |-> IF s[k] = old THEN new ELSE s[k]]

safe_nameKeepSlash(name) ==
    replace(strip(SelectSeq(name, LAMBDA c : KeepChar(c) \/ c = "/")), " ", "_")

\* line 112
safe_name(name) == replace(strip(SelectSeq(name, KeepChar)), " ", "_")

\* a planet record: an absent key and an empty string are both falsy, <<>>
Planet(pl, nm) == [pl_name |-> pl, name |-> nm]

Kepler10b == <<"K", "e", "p", "l", "e", "r", "-", "1", "0", "b">>
BadName == <<"?", "?", "b", "a", "d", "/", "n", "a", "m", "e">>

Records ==
    { Planet(<<>>, Kepler10b),
      Planet(<<>>, BadName),
      Planet(<<"a", " ", "b">>, <<"z">>),
      Planet(<<>>, <<"a", "_", "b">>),
      Planet(<<>>, <<"?", "?">>),
      Planet(<<>>, <<>>) }

\* line 111
planet_name(planet) ==
    IF planet.pl_name # <<>> THEN planet.pl_name
    ELSE IF planet.name # <<>> THEN planet.name
    ELSE <<"p", "l", "a", "n", "e", "t">>

Digit(d) ==
    CASE d = 0 -> "0" [] d = 1 -> "1" [] d = 2 -> "2" [] d = 3 -> "3"
      [] d = 4 -> "4" [] d = 5 -> "5" [] d = 6 -> "6" [] d = 7 -> "7"
      [] d = 8 -> "8" [] d = 9 -> "9"

RECURSIVE Decimal(_)
\* str(n) for n >= 0
Decimal(n) == IF n < 10 THEN Digit(n) ELSE Decimal(n \div 10) \o Digit(n % 10)

RECURSIVE ZeroPad(_, _, _)
\* left-pad the decimal string s of length len with zeros to width 4
ZeroPad(s, len, width) == IF len >= width THEN s ELSE ZeroPad("0" \o s, len + 1, width)

NumDigits(n) == IF n < 10 THEN 1 ELSE IF n < 100 THEN 2 ELSE IF n < 1000 THEN 3 ELSE 4

\* f"frame_{i:04d}.png", line 73
frame_path(i) == "frame_" \o ZeroPad(Decimal(i), NumDigits(i), 4) \o ".png"

\* f"{safe_name}.mp4", line 129
out_mp4(safe) == Str(safe) \o ".mp4"

-----------------------------------------------------------------------------
(* make_frames_for_prompt *)

defaultSeedsShort(num_frames) ==
    [j \in 1..(num_frames - 1) |-> SeedBase + (j - 1) * SeedStep]

defaultSeedsOneBased(num_frames) ==
    [j \in 1..num_frames |-> SeedBase + j * SeedStep]

\* line 65: element j of the sequence is the seed of frame index j-1
defaultSeeds(num_frames) ==
    [j \in 1..num_frames |-> SeedBase + (j - 1) * SeedStep]

\* line 70 and 113: the prompt is determined by the planet name and i+1
frame_prompt(name, i) == [planet |-> Str(name), frame |-> i + 1]

-----------------------------------------------------------------------------
(* The frame cache .cache_video_frames *)

CurName == planet_name(planets[idx])
CurSafe == safe_name(CurName)

\* files of the directory working / safe
FilesIn(safe) ==
    IF safe = <<>> THEN root
    ELSE IF safe \in DOMAIN dirs THEN dirs[safe] ELSE {}

\* the directory after image.save(frame_path): an existing file is replaced
WithFile(files, name, writer) ==
    {e \in files : e.name # name} \cup {[name |-> name, writer |-> writer]}

\* frames left by an earlier run with StaleFrames frames per planet
StaleDir == {[name |-> frame_path(j), writer |-> 0] : j \in 0..(StaleFrames - 1)}

\* a planet of the earlier run's catalog that this run's catalog lacks
OldPlanet == <<"z">>

\* the cache an earlier run left: a directory for each of this catalog's
\* planets with a name, and one for OldPlanet
StaleCache ==
    [s \in ({safe_name(planet_name(planets[k])) : k \in 1..Len(planets)} \ {<<>>})
            \cup {safe_name(OldPlanet)} |-> StaleDir]

Catalogs == UNION {[1..n -> Records] : n \in 0..MaxCatalog}

SanOff == [step |-> "off", in |-> <<>>, out |-> <<>>, again |-> <<>>]

Init ==
    /\ pc = "start"
    /\ err = ""
    /\ planets \in Catalogs
    /\ frames \in 0..MaxFrames
    /\ limit \in 0..MaxLimit
    /\ modelLoads = 0
    /\ root = {}
    /\ \E prior \in BOOLEAN : dirs = IF prior THEN StaleCache ELSE <<>>
    /\ idx = 0
    /\ seeds = <<>>
    /\ f = 0
    /\ calls = {}
    /\ attempted = <<>>
    /\ genFailed = {}
    /\ encInvoked = {}
    /\ encFailed = {}
    /\ saved = {}
    /\ san = SanOff

-----------------------------------------------------------------------------
(* generate_videos, lines 87-104: the checks and loads before the loop *)

Abort(reason) ==
    /\ pc' = "aborted"
    /\ err' = reason

\* line 88-89, StableDiffusionPipeline is None
DiffusersMissing ==
    /\ pc = "start"
    /\ Abort("diffusers")
    /\ UNCHANGED <<planets, frames, limit, modelLoads, root, dirs, idx, seeds, f,
                   calls, attempted, genFailed, encInvoked, encFailed, saved, san>>

DiffusersPresent ==
    /\ pc = "start"
    /\ pc' = "token"
    /\ UNCHANGED <<err, planets, frames, limit, modelLoads, root, dirs, idx, seeds,
                   f, calls, attempted, genFailed, encInvoked, encFailed, saved, san>>

\* line 91-93, neither HUGGINGFACE_TOKEN nor HF_TOKEN is set
TokenMissing ==
    /\ pc = "token"
    /\ Abort("token")
    /\ UNCHANGED <<planets, frames, limit, modelLoads, root, dirs, idx, seeds, f,
                   calls, attempted, genFailed, encInvoked, encFailed, saved, san>>

TokenPresent ==
    /\ pc = "token"
    /\ pc' = "model"
    /\ UNCHANGED <<err, planets, frames, limit, modelLoads, root, dirs, idx, seeds,
                   f, calls, attempted, genFailed, encInvoked, encFailed, saved, san>>

\* line 100-101, from_pretrained returns
LoadModel ==
    /\ pc = "model"
    /\ modelLoads' = modelLoads + 1
    /\ pc' = "planets"
    /\ UNCHANGED <<err, planets, frames, limit, root, dirs, idx, seeds, f, calls,
                   attempted, genFailed, encInvoked, encFailed, saved, san>>

\* line 100-101, from_pretrained raises
LoadModelFail ==
    /\ pc = "model"
    /\ modelLoads' = modelLoads + 1
    /\ Abort("model")
    /\ UNCHANGED <<planets, frames, limit, root, dirs, idx, seeds, f, calls,
                   attempted, genFailed, encInvoked, encFailed, saved, san>>

\* line 103, load_planets returns the catalog
LoadPlanets ==
    /\ pc = "planets"
    /\ pc' = "ffmpeg"
    /\ UNCHANGED <<err, planets, frames, limit, modelLoads, root, dirs, idx, seeds,
                   f, calls, attempted, genFailed, encInvoked, encFailed, saved, san>>

\* line 103, open() or json.load() raises
LoadPlanetsFail ==
    /\ pc = "planets"
    /\ Abort("data")
    /\ UNCHANGED <<planets, frames, limit, modelLoads, root, dirs, idx, seeds, f,
                   calls, attempted, genFailed, encInvoked, encFailed, saved, san>>

\* line 104-108, "ffmpeg -version" succeeds; the loop starts at the first planet
EnsureFfmpeg ==
    /\ pc = "ffmpeg"
    /\ pc' = "loop"
    /\ idx' = 1
    /\ UNCHANGED <<err, planets, frames, limit, modelLoads, root, dirs, seeds, f,
                   calls, attempted, genFailed, encInvoked, encFailed, saved, san>>

\* line 104 and 54-58, "ffmpeg -version" fails
EnsureFfmpegFail ==
    /\ pc = "ffmpeg"
    /\ Abort("ffmpeg")
    /\ UNCHANGED <<planets, frames, limit, modelLoads, root, dirs, idx, seeds, f,
                   calls, attempted, genFailed, encInvoked, encFailed, saved, san>>

-----------------------------------------------------------------------------
(* generate_videos, lines 110-137: the loop over the catalog *)

\* frames_dir.iterdir() yields a directory: working / '' is working itself
UnlinkRaises(safe) == safe = <<>> /\ DOMAIN dirs # {}

ClearDirSkip(ds, safe) ==
    IF safe \in DOMAIN ds THEN ds ELSE ds @@ (safe :> {})

\* lines 117-120 for a sub-directory: unlink every file, create if absent
ClearDir(ds, safe) ==
    IF safe \in DOMAIN ds THEN [ds EXCEPT ![safe] = {}] ELSE ds @@ (safe :> {})

\* lines 111-124 up to the call of make_frames_for_prompt (lines 61-65)
BeginRecord ==
    /\ pc = "loop"
    /\ idx <= Len(planets)
    /\ ~UnlinkRaises(CurSafe)
    /\ IF CurSafe = <<>>
       THEN root' = {} /\ dirs' = dirs
       ELSE root' = root /\ dirs' = ClearDir(dirs, CurSafe)
    /\ seeds' = defaultSeeds(frames)
    /\ f' = 0
    /\ attempted' = Append(attempted, idx)
    /\ pc' = "gen"
    /\ UNCHANGED <<err, planets, frames, limit, modelLoads, idx, calls, genFailed,
                   encInvoked, encFailed, saved, san>>

\* lines 117-119: f.unlink() on a directory raises outside every try block;
\* the files iterdir() listed before the directory are already gone
ClearRaise ==
    /\ pc = "loop"
    /\ idx <= Len(planets)
    /\ UnlinkRaises(CurSafe)
    /\ root' \in SUBSET root
    /\ Abort("unlink")
    /\ UNCHANGED <<planets, frames, limit, modelLoads, dirs, idx, seeds, f, calls,
                   attempted, genFailed, encInvoked, encFailed, saved, san>>

\* the pipeline invocation of lines 70-72 for frame index i
Call(i) ==
    [rec |-> idx, i |-> i, seed |-> seeds[i + 1], prompt |-> frame_prompt(CurName, i),
     width |-> Width, height |-> Height]

\* lines 69-74, one iteration: generate the image and save it
GenFrame ==
    /\ pc = "gen"
    /\ f < Len(seeds)
    /\ calls' = calls \cup {Call(f)}
    /\ IF CurSafe = <<>>
       THEN root' = WithFile(root, frame_path(f), idx) /\ dirs' = dirs
       ELSE /\ root' = root
            /\ dirs' = [dirs EXCEPT ![CurSafe] = WithFile(@, frame_path(f), idx)]
    /\ f' = f + 1
    /\ UNCHANGED <<pc, err, planets, frames, limit, modelLoads, idx, seeds,
                   attempted, genFailed, encInvoked, encFailed, saved, san>>

GenFrameFailFallThrough ==
    /\ pc = "gen"
    /\ f < Len(seeds)
    /\ calls' \in {calls, calls \cup {Call(f)}}
    /\ genFailed' = genFailed \cup {idx}
    /\ pc' = "assemble"
    /\ UNCHANGED <<err, planets, frames, limit, modelLoads, root, dirs, idx, seeds,
                   f, attempted, encInvoked, encFailed, saved, san>>

\* lines 69-74 raise at frame f (seeding, pipeline or save); lines 125-127
GenFrameFail ==
    /\ pc = "gen"
    /\ f < Len(seeds)
    /\ calls' \in {calls, calls \cup {Call(f)}}
    /\ genFailed' = genFailed \cup {idx}
    /\ pc' = "loop"
    /\ idx' = idx + 1
    /\ UNCHANGED <<err, planets, frames, limit, modelLoads, root, dirs, seeds, f,
                   attempted, encInvoked, encFailed, saved, san>>

\* line 75, the seeds are exhausted
GenReturn ==
    /\ pc = "gen"
    /\ f = Len(seeds)
    /\ pc' = "assemble"
    /\ UNCHANGED <<err, planets, frames, limit, modelLoads, root, dirs, idx, seeds,
                   f, calls, attempted, genFailed, encInvoked, encFailed, saved, san>>

\* lines 129-133, ffmpeg exits 0
AssembleOK ==
    /\ pc = "assemble"
    /\ encInvoked' = encInvoked \cup {idx}
    /\ saved' = saved \cup {[rec |-> idx, file |-> out_mp4(CurSafe)]}
    /\ pc' = "loop"
    /\ idx' = idx + 1
    /\ UNCHANGED <<err, planets, frames, limit, modelLoads, root, dirs, seeds, f,
                   calls, attempted, genFailed, encFailed, san>>

\* lines 129-135, ffmpeg exits non-zero or cannot be started
AssembleFail ==
    /\ pc = "assemble"
    /\ encInvoked' = encInvoked \cup {idx}
    /\ encFailed' = encFailed \cup {idx}
    /\ pc' = "loop"
    /\ idx' = idx + 1
    /\ UNCHANGED <<err, planets, frames, limit, modelLoads, root, dirs, seeds, f,
                   calls, attempted, genFailed, saved, san>>

\* line 137, the catalog is exhausted
AllDone ==
    /\ pc = "loop"
    /\ idx > Len(planets)
    /\ pc' = "done"
    /\ UNCHANGED <<err, planets, frames, limit, modelLoads, root, dirs, idx, seeds,
                   f, calls, attempted, genFailed, encInvoked, encFailed, saved, san>>

Next ==
    \/ DiffusersMissing
    \/ DiffusersPresent
    \/ TokenMissing
    \/ TokenPresent
    \/ LoadModel
    \/ LoadModelFail
    \/ LoadPlanets
    \/ LoadPlanetsFail
    \/ EnsureFfmpeg
    \/ EnsureFfmpegFail
    \/ BeginRecord
    \/ ClearRaise
    \/ GenFrame
    \/ GenFrameFail
    \/ GenReturn
    \/ AssembleOK
    \/ AssembleFail
    \/ AllDone

Spec == Init /\ [][Next]_vars

-----------------------------------------------------------------------------
(* The sanitization of line 112 on its own, applied twice *)

SanAlphabet == {"a", "1", " ", "-", "_", "?", "\t"}

Strings == UNION {[1..n -> SanAlphabet] : n \in 0..MaxLen}

InitSan ==
    /\ pc = "off"
    /\ err = ""
    /\ planets = <<>>
    /\ frames = 0
    /\ limit = 0
    /\ modelLoads = 0
    /\ root = {}
    /\ dirs = <<>>
    /\ idx = 0
    /\ seeds = <<>>
    /\ f = 0
    /\ calls = {}
    /\ attempted = <<>>
    /\ genFailed = {}
    /\ encInvoked = {}
    /\ encFailed = {}
    /\ saved = {}
    /\ \E s \in Strings : san = [step |-> "in", in |-> s, out |-> <<>>, again |-> <<>>]

SanOnce ==
    /\ san.step = "in"
    /\ san' = [san EXCEPT !.step = "once", !.out = safe_name(san.in)]
    /\ UNCHANGED <<pc, err, planets, frames, limit, modelLoads, root, dirs, idx,
                   seeds, f, calls, attempted, genFailed, encInvoked, encFailed, saved>>

SanTwice ==
    /\ san.step = "once"
    /\ san' = [san EXCEPT !.step = "twice", !.again = safe_name(san.out)]
    /\ UNCHANGED <<pc, err, planets, frames, limit, modelLoads, root, dirs, idx,
                   seeds, f, calls, attempted, genFailed, encInvoked, encFailed, saved>>

NextSan == SanOnce \/ SanTwice

SpecSan == InitSan /\ [][NextSan]_vars

-----------------------------------------------------------------------------
(* Properties *)

Min(a, b) == IF a < b THEN a ELSE b

Range(s) == {s[k] : k \in 1..Len(s)}

Ended == pc \in {"done", "aborted"}

SafeOf(k) == safe_name(planet_name(planets[k]))

\* C1: if the encoder check fails, no model load was attempted and no frame
\* was generated in that run.
C1_EncoderCheckBeforeModelLoad ==
    err = "ffmpeg" => (modelLoads = 0 /\ calls = {})

\* C2: the records handed to frame generation are the first min(length, cap)
\* records of the catalog, in file order, each once (cap 0 means no cap).
C2_AttemptedIsCappedPrefix ==
    pc = "done" =>
        attempted = [k \in 1..(IF limit = 0 THEN Len(planets)
                               ELSE Min(Len(planets), limit)) |-> k]

\* C3: once the run has ended, a record whose generation or encoding failed
\* has not kept any later record from being attempted, and the records
\* reported saved are the catalog minus the failed records.
C3_RecordFailureNeverAborts ==
    (Ended /\ genFailed \cup encFailed # {}) =>
        /\ \A k \in genFailed \cup encFailed :
             \A j \in (k + 1)..Len(planets) : j \in Range(attempted)
        /\ {s.rec : s \in saved} = (1..Len(planets)) \ (genFailed \cup encFailed)

\* C4: the encoder is never invoked, and no video is reported, for a record
\* whose frame generation failed.
C4_NoEncoderAfterFailedGeneration ==
    /\ encInvoked \cap genFailed = {}
    /\ pc = "assemble" => idx \notin genFailed
    /\ \A s \in saved : s.rec \notin genFailed

\* a failed record left a partial frame sequence behind and a later record
\* was encoded
C4_Witness ==
    /\ pc = "done"
    /\ encInvoked # {}
    /\ \E k \in genFailed :
         /\ \E e \in FilesIn(SafeOf(k)) : e.writer = k
         /\ Cardinality({e \in FilesIn(SafeOf(k)) : e.writer = k}) < frames

ExampleCatalog == <<Planet(<<>>, Kepler10b), Planet(<<>>, BadName)>>

ExampleRan ==
    /\ planets = ExampleCatalog
    /\ frames = 2
    /\ pc = "done"
    /\ {s.rec : s \in saved} = {1, 2}

ExampleFrames == {"frame_0000.png", "frame_0001.png"}

\* the sanitization as the specification words it: keep alphanumerics, space,
\* hyphen and underscore, drop the spaces at both ends, space becomes "_"
Allowed == Letters \cup Digits \cup {" ", "-", "_"}

Sanitized(name) ==
    LET kept == SelectSeq(name, LAMBDA c : c \in Allowed)
        inner == {k \in 1..Len(kept) : kept[k] # " "}
    IN  IF inner = {} THEN <<>>
        ELSE LET lo == CHOOSE k \in inner : \A j \in inner : k <= j
                 hi == CHOOSE k \in inner : \A j \in inner : k >= j
             IN  [k \in 1..(hi - lo + 1) |->
                    IF kept[lo + k - 1] = " " THEN "_" ELSE kept[lo + k - 1]]

\* C5 as claimed: the example catalog yields Kepler-10b.mp4 and bad_name.mp4.
C5_ExampleAsClaimed ==
    ExampleRan =>
        /\ saved = {[rec |-> 1, file |-> "Kepler-10b.mp4"],
                    [rec |-> 2, file |-> "bad_name.mp4"]}
        /\ {Str(SafeOf(k)) : k \in 1..2} = {"Kepler-10b", "bad_name"}
        /\ \A k \in 1..2 : {e.name : e \in FilesIn(SafeOf(k))} = ExampleFrames

\* C5 amended: the example catalog yields the identifiers Kepler-10b and
\* badname, frame_0000 and frame_0001 for each, and the videos Kepler-10b.mp4
\* and badname.mp4; every reported video is named by the sanitization of the
\* record's name plus ".mp4".
C5_VideoNamedBySanitizedName ==
    /\ ExampleRan =>
        /\ saved = {[rec |-> 1, file |-> "Kepler-10b.mp4"],
                    [rec |-> 2, file |-> "badname.mp4"]}
        /\ {Str(SafeOf(k)) : k \in 1..2} = {"Kepler-10b", "badname"}
        /\ \A k \in 1..2 : {e.name : e \in FilesIn(SafeOf(k))} = ExampleFrames
    /\ \A s \in saved :
         s.file = Str(Sanitized(planet_name(planets[s.rec]))) \o ".mp4"

C5_Witness ==
    /\ ExampleRan
    /\ Cardinality(calls) = 4

\* C6: when make_frames_for_prompt has returned, the record's frame directory
\* holds exactly F files, named frame_%04d.png for the indices 0..F-1.
C6_ExactlyFContiguousFrames ==
    pc = "assemble" =>
        /\ {e.name : e \in FilesIn(CurSafe)} = {frame_path(j) : j \in 0..(frames - 1)}
        /\ Cardinality(FilesIn(CurSafe)) = frames
        /\ frames = 2 => {e.name : e \in FilesIn(CurSafe)} = ExampleFrames

\* generation returned for the second of two records sharing a directory
C6_Witness ==
    /\ pc = "assemble"
    /\ frames >= 2
    /\ idx = 2
    /\ SafeOf(1) = SafeOf(2)
    /\ 1 \in encInvoked

\* C7: when frame generation starts the record's directory holds no frame
\* file, and while it runs and when the encoder is invoked every file in the
\* directory was written by this record in this run.
C7_NoStaleFrames ==
    /\ (pc = "gen" /\ f = 0) => FilesIn(CurSafe) = {}
    /\ pc \in {"gen", "assemble"} => \A e \in FilesIn(CurSafe) : e.writer = idx

\* the encoder is about to read a directory that an earlier run left with
\* more frames and that an earlier record with another name also used
C7_Witness ==
    /\ pc = "assemble"
    /\ idx = 2
    /\ SafeOf(1) = SafeOf(2)
    /\ planets[1] # planets[2]
    /\ 1 \in encInvoked
    /\ frames \in 1..(StaleFrames - 1)
    /\ safe_name(OldPlanet) \in DOMAIN dirs

\* C8: sanitizing a sanitized name yields the same name.
C8_SanitizationIdempotent ==
    san.step = "twice" => san.again = san.out

\* a name that sanitization changes in all three ways
C8_Witness ==
    /\ san.step = "twice"
    /\ Len(san.out) < Len(san.in)
    /\ "_" \in Range(san.out)
    /\ "_" \notin Range(san.in)
    /\ \E c \in Range(san.in) : c \in {"?", "\t"}

\* the (frame index, seed, frame number) triples used for record k
SeedSequence(k) == {<<c.i, c.seed, c.prompt.frame>> : c \in {d \in calls : d.rec = k}}

\* C9: frame index i is generated with seed 1000 + 7*i and frame number i+1
\* under the record's prompt, and two records whose generation completed
\* used the same seed sequence.
C9_DefaultSeedsDeterministic ==
    /\ \A c \in calls :
         /\ c.seed = 1000 + 7 * c.i
         /\ c.prompt = [planet |-> Str(planet_name(planets[c.rec])), frame |-> c.i + 1]
    /\ \A j, k \in encInvoked : SeedSequence(j) = SeedSequence(k)
    /\ \A k \in encInvoked : {t[1] : t \in SeedSequence(k)} = 0..(frames - 1)

C9_Witness ==
    /\ pc = "done"
    /\ {1, 2} \subseteq encInvoked
    /\ \E c \in calls : c.rec = 2 /\ c.seed = 1007

\* C10: the directory a record clears and fills is never the shared working
\* directory itself, and the clearing step never raises out of the loop.
C10_FramesDirBelowWorking ==
    /\ pc \in {"gen", "assemble"} => CurSafe # <<>>
    /\ err # "unlink"

====
